---- MODULE Spec2Model ----
(***************************************************************************)
(* nnbar::LArCVMaker (src/nnbar/LArCVMaker/LArCVMaker_module.cc): the wire *)
(* store, FindBestAPA, FindROI and the per-event pipeline of analyze().    *)
(*                                                                         *)
(* A sample sequence (std::vector<float>) is held sparsely: its size and   *)
(* the ticks whose amplitude is not zero. Amplitudes are integers.         *)
(***************************************************************************)
EXTENDS Integers, Sequences, FiniteSets, TLC

VARIABLES
  fWireMap,     \* std::map<int,std::vector<float>> fWireMap
  roi,          \* fFirstWire, fLastWire, fFirstTick, fLastTick, fNumberWires, fNumberTicks
  fAPA,         \* int fAPA
  fEvent,       \* int fEvent: number of the event being analyzed
  pc,           \* position of the process inside analyze()
  wires,        \* the event's recob::Wire collection (wireh)
  it,           \* iterator of the fill loop (1-based index into wires)
  apas,         \* std::vector<int> apas
  best_apa,     \* int best_apa
  it_plane,     \* loop counter of the two per-plane loops
  downsample,   \* int downsample of the image loop
  images,       \* the event's image product (larcv::EventImage2D)
  sink,         \* entries saved by fMgr.save_entry()
  passed,       \* history: events whose three planes passed the check loop
  call,         \* history: the last direct call of FindROI / FindBestAPA and its result
  marked        \* history: one earlier FindROI call and its result

vars == <<fWireMap, roi, fAPA, fEvent, pc, wires, it, apas, best_apa, it_plane,
          downsample, images, sink, passed, call, marked>>

-----------------------------------------------------------------------------
(* Configuration (fhicl parameters) and geometry constants *)

fMaxTick == 4000
fADCCut == 5
fEventType == 1

fNumberChannels == (0 :> 800 @@ 1 :> 800 @@ 2 :> 960)
fFirstChannel == (0 :> 0 @@ 1 :> 800 @@ 2 :> 1600)
fLastChannel == (0 :> 799 @@ 1 :> 1599 @@ 2 :> 2559)

(* Bounds of the model *)
MaxEvents == 2
MaxWires == 3
MaxList == 2

-----------------------------------------------------------------------------
(* C++ integer arithmetic: / and % truncate towards zero *)

CDiv(a, b) ==
  IF (a >= 0) = (b > 0)
  THEN (IF a >= 0 THEN a ELSE -a) \div (IF b > 0 THEN b ELSE -b)
  ELSE -((IF a >= 0 THEN a ELSE -a) \div (IF b > 0 THEN b ELSE -b))

CRem(a, b) == a - b * CDiv(a, b)

(* std::vector<float>: size() and operator[] inside the bounds *)
Size(samples) == samples.size

At(samples, tick) == IF tick \in DOMAIN samples.sig THEN samples.sig[tick] ELSE 0

Samples(n, sig) == [size |-> n, sig |-> sig]

-----------------------------------------------------------------------------
(* ResetROI, SetROISize *)

ResetROIKeep(r) == r

ResetROI(r) ==
  [fFirstWire |-> -1, fLastWire |-> -1, fFirstTick |-> -1, fLastTick |-> -1,
   fNumberWires |-> -1, fNumberTicks |-> -1]

SetROISize(r) ==
  [r EXCEPT !.fNumberWires = r.fLastWire - r.fFirstWire + 1,
            !.fNumberTicks = r.fLastTick - r.fFirstTick + 1]

-----------------------------------------------------------------------------
(* FindBestAPA *)

RECURSIVE SumCells(_, _)
SumCells(map, cells) ==
  IF cells = {} THEN 0
  ELSE LET c == CHOOSE x \in cells : TRUE
       IN At(map[c[1]], c[2]) + SumCells(map, cells \ {c})

\* The cells the three nested loops add up: wire_address in the map, tick_address
\* below fMaxTick and below the size of the channel's sequence.
APACells(map, apa) ==
  {<<c, t>> \in UNION {{<<ch, tk>> : tk \in DOMAIN map[ch].sig} : ch \in DOMAIN map} :
     /\ \E it_plane_ \in 0..2 :
          (c - ((apa * 2560) + fFirstChannel[it_plane_])) \in 0..(fNumberChannels[it_plane_] - 1)
     /\ t < fMaxTick
     /\ t < Size(map[c])}

APASum(map, apa) == SumCells(map, APACells(map, apa))

BetterAPALast(max_adc, best_adc, best) == max_adc >= best_adc \/ best = -1

BetterAPA(max_adc, best_adc, best) == max_adc > best_adc \/ best = -1

RECURSIVE BestAPALoop(_, _, _, _, _)
BestAPALoop(map, list, i, best, best_adc) ==
  IF i > Len(list) THEN best
  ELSE LET max_adc == APASum(map, list[i])
       IN IF BetterAPA(max_adc, best_adc, best)
          THEN BestAPALoop(map, list, i + 1, list[i], max_adc)
          ELSE BestAPALoop(map, list, i + 1, best, best_adc)

FindBestAPA(map, list) == BestAPALoop(map, list, 1, -1, -1)

-----------------------------------------------------------------------------
(* FindROI *)

\* for (int channel = first_channel; channel < last_channel; ++channel)
ScanChannels(first_channel, last_channel) == first_channel..(last_channel - 1)

\* The (channel, tick) cells of the scan whose amplitude is above the cut: the
\* channels of the range that find() finds, the ticks below the sequence's size
AboveCut(map, first_channel, last_channel) ==
  UNION {{<<c, t>> : t \in {tk \in DOMAIN map[c].sig :
                              tk < Size(map[c]) /\ At(map[c], tk) > fADCCut}} :
           c \in {ch \in DOMAIN map : ch \in ScanChannels(first_channel, last_channel)}}

ScanCell(r, channel, tick) ==
  [r EXCEPT
     !.fFirstWire = IF @ = -1 \/ @ > channel THEN channel ELSE @,
     !.fLastWire  = IF @ = -1 \/ @ < channel THEN channel ELSE @,
     !.fFirstTick = IF @ = -1 \/ @ > tick THEN tick ELSE @,
     !.fLastTick  = IF @ = -1 \/ @ < tick THEN tick ELSE @]

\* The scan visits the cells channel by channel, tick by tick
RECURSIVE ScanLoop(_, _)
ScanLoop(r, cells) ==
  IF cells = {} THEN r
  ELSE LET c == CHOOSE x \in cells :
                  \A y \in cells : x[1] < y[1] \/ (x[1] = y[1] /\ x[2] <= y[2])
       IN ScanLoop(ScanCell(r, c[1], c[2]), cells \ {c})

Downsample(r) ==
  IF r.fNumberWires > 600 \/ CDiv(r.fNumberTicks, 4) > 600 THEN 2 ELSE 1

WireMarginNoClamp(r, ds, first_channel, last_channel) ==
  [r EXCEPT !.fFirstWire = @ - 10 * ds, !.fLastWire = @ + 10 * ds]

WireMargin(r, ds, first_channel, last_channel) ==
  LET margin == 10 * ds
  IN [r EXCEPT
        !.fFirstWire = IF @ - margin < first_channel THEN first_channel ELSE @ - margin,
        !.fLastWire  = IF @ + margin > last_channel THEN last_channel ELSE @ + margin]

WireParityLastOnly(r, ds, first_channel, last_channel) ==
  IF CRem(r.fNumberWires, ds) = 1 /\ r.fLastWire < last_channel
  THEN [roi |-> [r EXCEPT !.fLastWire = @ + 1, !.fNumberWires = @ + 1], exit |-> FALSE]
  ELSE [roi |-> r, exit |-> CRem(r.fNumberWires, ds) = 1]

WireParity(r, ds, first_channel, last_channel) ==
  IF CRem(r.fNumberWires, ds) = 1 /\ r.fLastWire < last_channel
  THEN [roi |-> [r EXCEPT !.fLastWire = @ + 1, !.fNumberWires = @ + 1], exit |-> FALSE]
  ELSE IF CRem(r.fNumberWires, ds) = 1 /\ r.fFirstWire > first_channel
  THEN [roi |-> [r EXCEPT !.fFirstWire = @ - 1, !.fNumberWires = @ + 1], exit |-> FALSE]
  ELSE [roi |-> r, exit |-> CRem(r.fNumberWires, ds) = 1]

TickWindowLong(ds) ==
  IF ds = 1 THEN [first_tick |-> 0, last_tick |-> 4492]
  ELSE [first_tick |-> 2, last_tick |-> 4490]

TickWindow(ds) ==
  IF ds = 1 THEN [first_tick |-> 0, last_tick |-> 4491]
  ELSE [first_tick |-> 2, last_tick |-> 4489]

TickCorrection(r, ds) ==
  LET first_tick == TickWindow(ds).first_tick
      last_tick == TickWindow(ds).last_tick
      num_ticks == last_tick - first_tick
      order == 4 * ds
      margin == 40 * ds
      Pad(n) == IF CRem(n, order) # 0 THEN order - CRem(n, order) ELSE 0
      ticks_to_add == Pad(r.fNumberTicks)
  IN IF r.fNumberTicks + (2 * margin) + ticks_to_add > num_ticks
     THEN [roi |-> [r EXCEPT !.fFirstTick = first_tick, !.fLastTick = last_tick],
           exit |-> FALSE]
     ELSE
       LET \* deal with start of ROI
           a == SetROISize([r EXCEPT !.fFirstTick =
                   IF @ - (margin + ticks_to_add) < first_tick THEN first_tick
                   ELSE @ - (margin + ticks_to_add)])
           \* now deal with end of ROI
           b == SetROISize([a EXCEPT !.fLastTick =
                   IF @ + margin + Pad(a.fNumberTicks) > last_tick THEN last_tick
                   ELSE @ + margin + Pad(a.fNumberTicks)])
           \* now mop up any residual
           c == IF CRem(b.fNumberTicks, order) # 0
                THEN SetROISize([b EXCEPT !.fFirstTick =
                        IF @ - Pad(b.fNumberTicks) < first_tick THEN first_tick
                        ELSE @ - Pad(b.fNumberTicks)])
                ELSE b
       IN [roi |-> c, exit |-> CRem(c.fNumberTicks, order) # 0]

\* The channels the scan indexes with fWireMap[channel]: those find() finds
ScanIndexed(map, first_channel, last_channel) ==
  {c \in DOMAIN map : c \in ScanChannels(first_channel, last_channel)}

\* std::map::operator[] on each of `channels`: a missing key is inserted with an
\* empty vector
IndexMap(map, channels) ==
  [c \in DOMAIN map \cup channels |-> IF c \in DOMAIN map THEN map[c] ELSE Samples(0, <<>>)]

\* The fields as FindROI leaves them and the value returned (0 when the process
\* exits instead), and which exit(1) was taken ("none": it returned).
FindROIFields(r0, map, apa, plane) ==
  LET first_channel == (2560 * apa) + fFirstChannel[plane]
      last_channel == (2560 * apa) + fLastChannel[plane]
      r1 == ScanLoop(ResetROI(r0), AboveCut(map, first_channel, last_channel))
  IN IF r1.fFirstWire = -1 \/ r1.fLastWire = -1 \/ r1.fFirstTick = -1 \/ r1.fLastTick = -1
     THEN [roi |-> r1, ret |-> -1, exit |-> "none"]
     ELSE
       LET r2 == SetROISize(r1)
           ds == Downsample(r2)
           r3 == SetROISize(WireMargin(r2, ds, first_channel, last_channel))
           w == WireParity(r3, ds, first_channel, last_channel)
       IN IF w.exit THEN [roi |-> w.roi, ret |-> 0, exit |-> "wires"]
          ELSE
            LET t == TickCorrection(SetROISize(w.roi), ds)
            IN IF t.exit THEN [roi |-> t.roi, ret |-> 0, exit |-> "ticks"]
               ELSE [roi |-> SetROISize(t.roi), ret |-> ds, exit |-> "none"]

\* FindROI: the fields, the result, and the wire map as the scan leaves it
FindROI(r0, map, apa, plane) ==
  LET f == FindROIFields(r0, map, apa, plane)
  IN [roi |-> f.roi, ret |-> f.ret, exit |-> f.exit,
      map |-> IndexMap(map, ScanIndexed(map, (2560 * apa) + fFirstChannel[plane],
                                             (2560 * apa) + fLastChannel[plane]))]

(* analyze(), lines 316-317: the size of the compressed image *)
ImageWidth(r, ds) == CDiv(r.fNumberWires, ds)

ImageHeight(r, ds) == CDiv(r.fNumberTicks, 4 * ds)

-----------------------------------------------------------------------------
(* The wire store of analyze(): line 272 and lines 273-275 *)

InsertWireOverwrite(map, channel, samples) ==
  [c \in DOMAIN map \cup {channel} |-> IF c = channel THEN samples ELSE map[c]]

\* std::map::insert keeps the mapped value of a key that is already present
InsertWire(map, channel, samples) ==
  IF channel \in DOMAIN map THEN map
  ELSE [c \in DOMAIN map \cup {channel} |-> IF c = channel THEN samples ELSE map[c]]

PushAPA(list, apa) ==
  IF \E i \in 1..Len(list) : list[i] = apa THEN list ELSE Append(list, apa)

EmptyMap == [c \in {} |-> Samples(0, <<>>)]

-----------------------------------------------------------------------------
(* Inputs: channels, sample sequences, stores *)

ChannelVals ==
  {0, 101, 700, 798, 799,                 \* plane 0 of APA 0
   1600, 2559,                            \* plane 2 of APA 0: its first and last channel
   3360, 4159}                            \* plane 1 of APA 1: its first and last channel

WireVals ==
  {Samples(4492, 100 :> 20),
   Samples(4492, 0 :> 20),
   Samples(4492, 4491 :> 20),
   Samples(4492, 100 :> 20 @@ 2502 :> 20),
   Samples(4492, 100 :> 20 @@ 2503 :> 20),
   Samples(50, 10 :> -7 @@ 20 :> 5),
   Samples(4492, 4100 :> 20),
   Samples(4600, 4599 :> 20)}

\* Stores of one or two channels
StoreInputs ==
  {InsertWire(InsertWire(EmptyMap, a[1], a[2]), b[1], b[2]) :
     a \in ChannelVals \X WireVals, b \in ChannelVals \X WireVals}

\* The fields before the first ClearData / ResetROI: not initialized by the constructor
UninitROI ==
  {[fFirstWire |-> -1, fLastWire |-> -1, fFirstTick |-> -1, fLastTick |-> -1,
    fNumberWires |-> -1, fNumberTicks |-> -1],
   [fFirstWire |-> 0, fLastWire |-> 5000, fFirstTick |-> 0, fLastTick |-> 5000,
    fNumberWires |-> 7, fNumberTicks |-> 7]}

NoCall == [op |-> "none", exit |-> "none", between |-> FALSE]

-----------------------------------------------------------------------------
(* Direct calls of FindROI on a filled store *)

InitROI ==
  /\ fWireMap \in StoreInputs
  /\ roi \in UninitROI
  /\ fAPA = -1
  /\ fEvent = 0
  /\ pc = "called"
  /\ wires = <<>>
  /\ it = 1
  /\ apas = <<>>
  /\ best_apa = -1
  /\ it_plane = 0
  /\ downsample = 0
  /\ images = <<>>
  /\ sink = <<>>
  /\ passed = <<>>
  /\ call = NoCall
  /\ marked = NoCall

CallFindROI(apa, plane) ==
  /\ pc = "called"
  /\ call.exit = "none"
  /\ \E res \in {FindROI(roi, fWireMap, apa, plane)} :
     LET this == [op |-> "FindROI", apa |-> apa, plane |-> plane,
                  kept |-> (res.map = fWireMap), roi |-> res.roi, ret |-> res.ret,
                  exit |-> res.exit, between |-> FALSE]
     IN /\ roi' = res.roi
        /\ fWireMap' = res.map
        /\ call' = this
        /\ marked' \in IF marked.op = "none" THEN {marked, this}
                       ELSE {[marked EXCEPT !.between =
                                @ \/ apa # marked.apa \/ plane # marked.plane]}
  /\ UNCHANGED <<fAPA, fEvent, pc, wires, it, apas, best_apa, it_plane,
                 downsample, images, sink, passed>>

NextROI == \E apa \in 0..1, plane \in 0..2 : CallFindROI(apa, plane)

SpecROI == InitROI /\ [][NextROI]_vars

-----------------------------------------------------------------------------
(* Direct calls of FindBestAPA on a filled store *)

ListInputs == UNION {[1..n -> 0..2] : n \in 1..MaxList}

\* FindBestAPA changes no field, so one call from each store covers every call
CallFindBestAPA(list) ==
  /\ pc = "called"
  /\ call.op = "none"
  /\ call' = [op |-> "FindBestAPA", list |-> list, ret |-> FindBestAPA(fWireMap, list),
              exit |-> "none", between |-> FALSE]
  /\ UNCHANGED <<fWireMap, roi, fAPA, fEvent, pc, wires, it, apas, best_apa, it_plane,
                 downsample, images, sink, passed, marked>>

NextAPA == \E list \in ListInputs : CallFindBestAPA(list)

InitAPA == InitROI /\ roi = ResetROI(roi)

SpecAPA == InitAPA /\ [][NextAPA]_vars

-----------------------------------------------------------------------------
(* analyze(): one event after the other *)

\* The wire signals an event may carry: (channel, samples)
EventWires ==
  {<<100, Samples(4492, 100 :> 20)>>,     \* plane 0 of APA 0
   <<100, Samples(50, 10 :> 3)>>,         \* the same channel, another signal
   <<900, Samples(4492, 100 :> 20)>>,     \* plane 1 of APA 0
   <<1700, Samples(4492, 200 :> 20)>>,    \* plane 2 of APA 0
   <<1700, Samples(120, 100 :> 20)>>,     \* plane 2 of APA 0, a short sequence
   <<2660, Samples(4492, 100 :> 40)>>}    \* plane 0 of APA 1

EventInputs == UNION {[1..n -> EventWires] : n \in 0..MaxWires}

Init ==
  /\ fWireMap = EmptyMap
  /\ roi \in UninitROI
  /\ fAPA = -1
  /\ fEvent = 0
  /\ pc = "idle"
  /\ wires = <<>>
  /\ it = 1
  /\ apas = <<>>
  /\ best_apa = -1
  /\ it_plane = 0
  /\ downsample = 0
  /\ images = <<>>
  /\ sink = <<>>
  /\ passed = <<>>
  /\ call = NoCall
  /\ marked = NoCall

\* analyze() is entered: ClearData, the event's number, its wire collection
BeginEvent ==
  /\ pc = "idle"
  /\ fEvent < MaxEvents
  /\ \E ws \in EventInputs : wires' = ws
  /\ roi' = ResetROI(roi)
  /\ fAPA' = -1
  /\ fWireMap' = EmptyMap
  /\ fEvent' = fEvent + 1
  /\ it' = 1
  /\ apas' = <<>>
  /\ pc' = "fill"
  /\ UNCHANGED <<best_apa, it_plane, downsample, images, sink, passed, call, marked>>

\* fill wire map: one iteration
FillWire ==
  /\ pc = "fill"
  /\ it <= Len(wires)
  /\ fWireMap' = InsertWire(fWireMap, wires[it][1], wires[it][2])
  /\ apas' = PushAPA(apas, wires[it][1] \div 2560)
  /\ it' = it + 1
  /\ UNCHANGED <<roi, fAPA, fEvent, pc, wires, best_apa, it_plane, downsample, images,
                 sink, passed, call, marked>>

\* find best APA, or skip the event
SelectAPA ==
  /\ pc = "fill"
  /\ it > Len(wires)
  /\ IF Len(apas) = 0
     THEN /\ pc' = "idle"
          /\ UNCHANGED <<best_apa, fAPA, it_plane>>
     ELSE \E best \in {FindBestAPA(fWireMap, apas)} :
            /\ best_apa' = best
            /\ IF best # -1
               THEN fAPA' = best /\ pc' = "check" /\ it_plane' = 0
               ELSE pc' = "idle" /\ UNCHANGED <<fAPA, it_plane>>
  /\ UNCHANGED <<fWireMap, roi, fEvent, wires, it, apas, downsample, images, sink,
                 passed, call, marked>>

\* check for problems: one iteration
CheckPlane ==
  /\ pc = "check"
  /\ \E res \in {FindROI(roi, fWireMap, best_apa, it_plane)} :
       /\ roi' = res.roi
       /\ fWireMap' = res.map
       /\ pc' = IF res.exit # "none" THEN "exited"
                ELSE IF res.ret = -1 THEN "idle"
                ELSE IF it_plane = 2 THEN "image" ELSE "check"
       /\ it_plane' = IF res.exit # "none" \/ res.ret = -1 THEN it_plane
                      ELSE IF it_plane = 2 THEN 0 ELSE it_plane + 1
       /\ passed' = IF res.exit = "none" /\ res.ret # -1 /\ it_plane = 2
                    THEN Append(passed, fEvent) ELSE passed
  /\ UNCHANGED <<fAPA, fEvent, wires, it, apas, best_apa, downsample, images, sink,
                 call, marked>>

\* produce image: int downsample = FindROI(best_apa,it_plane)
ImageROI ==
  /\ pc = "image"
  /\ \E res \in {FindROI(roi, fWireMap, best_apa, it_plane)} :
       /\ roi' = res.roi
       /\ fWireMap' = res.map
       /\ downsample' = res.ret
       /\ pc' = IF res.exit # "none" THEN "exited" ELSE "build"
  /\ UNCHANGED <<fAPA, fEvent, wires, it, apas, best_apa, it_plane, images, sink, passed,
                 call, marked>>

\* The loops of lines 306-312 read fWireMap[channel][tick] at a tick that is not
\* below the size of the channel's sequence
ReadsPastEnd(r, map) ==
  \E channel \in DOMAIN map :
     /\ (channel - r.fFirstWire) \in 0..(r.fNumberWires - 1)
     /\ \E it_tick \in 0..(r.fNumberTicks - 1) : it_tick + r.fFirstTick >= Size(map[channel])

Image(r, ds, plane, garbage) ==
  [plane |-> plane, rows |-> 600, cols |-> 600,
   image_width |-> ImageWidth(r, ds), image_height |-> ImageHeight(r, ds),
   garbage |-> garbage]

\* the rest of the image loop's body: the image is filled, compressed, copied to the
\* 600x600 canvas and emplaced. Reading a vector past its end is undefined: the
\* read gives some value, or the process dies.
BuildImage ==
  /\ pc = "build"
  /\ \E past \in {ReadsPastEnd(roi, fWireMap)} :
       \/ /\ ~past
          /\ images' = Append(images, Image(roi, downsample, it_plane, FALSE))
          /\ pc' = IF it_plane = 2 THEN "save" ELSE "image"
          /\ it_plane' = IF it_plane = 2 THEN it_plane ELSE it_plane + 1
       \/ /\ past
          /\ images' = Append(images, Image(roi, downsample, it_plane, TRUE))
          /\ pc' = IF it_plane = 2 THEN "save" ELSE "image"
          /\ it_plane' = IF it_plane = 2 THEN it_plane ELSE it_plane + 1
       \/ /\ past
          /\ pc' = "crashed"
          /\ UNCHANGED <<images, it_plane>>
  /\ UNCHANGED <<fWireMap, roi, fAPA, fEvent, wires, it, apas, best_apa, downsample,
                 sink, passed, call, marked>>

\* the ROI product and fMgr.save_entry()
SaveEntry ==
  /\ pc = "save"
  /\ sink' = Append(sink, [event |-> fEvent, images |-> images, type |-> fEventType])
  /\ images' = <<>>
  /\ pc' = "idle"
  /\ UNCHANGED <<fWireMap, roi, fAPA, fEvent, wires, it, apas, best_apa, it_plane,
                 downsample, passed, call, marked>>

Next ==
  \/ BeginEvent
  \/ FillWire
  \/ SelectAPA
  \/ CheckPlane
  \/ ImageROI
  \/ BuildImage
  \/ SaveEntry

Spec == Init /\ [][Next]_vars

-----------------------------------------------------------------------------
(* Claims about FindROI, under SpecROI *)

\* The last direct call of FindROI returned a downsample factor
Returned == call.op = "FindROI" /\ call.exit = "none" /\ call.ret # -1

FirstOf(c) == (2560 * c.apa) + fFirstChannel[c.plane]

LastOf(c) == (2560 * c.apa) + fLastChannel[c.plane]

\* C1: whenever FindROI returns a downsample factor d, d is 1 or 2, the number of
\* wires of the final ROI is a multiple of d and its number of ticks a multiple of
\* 4*d, also when the tick range was clamped to the canonical window.
C1_Divisible ==
  Returned =>
    /\ call.ret \in {1, 2}
    /\ (roi.fLastWire - roi.fFirstWire + 1) % call.ret = 0
    /\ (roi.fLastTick - roi.fFirstTick + 1) % (4 * call.ret) = 0

\* C1's case: a call that returned 2 with the tick range clamped to the window [2, 4489]
C1_Witness ==
  Returned /\ call.ret = 2 /\ roi.fFirstTick = 2 /\ roi.fLastTick = 4489

\* C2: for every call that returns a downsample factor, the compressed image is at
\* most 600 wide and 600 high (the claim as stated).
C2_Original ==
  Returned =>
    /\ ImageWidth(roi, call.ret) <= 600
    /\ ImageHeight(roi, call.ret) <= 600

\* The cells of the plane's channel range, its last channel included, above the cut
PlaneCellsAboveCut(map, c) ==
  {<<ch, t>> \in UNION {{<<x, tk>> : tk \in DOMAIN map[x].sig} : x \in DOMAIN map} :
     /\ FirstOf(c) <= ch /\ ch <= LastOf(c)
     /\ t < Size(map[ch])
     /\ At(map[ch], t) > fADCCut}

\* C3: FindROI returns -1 if and only if no cell of the plane's channel range, first
\* channel through last channel inclusive, is above the ADC cut (the claim as stated).
C3_Original ==
  (call.op = "FindROI" /\ call.exit = "none") =>
    ((call.ret = -1) <=> (PlaneCellsAboveCut(fWireMap, call) = {}))

\* C7: whenever FindROI returns a downsample factor, the final wire range lies inside
\* the plane's channel range of the APA, and is not empty.
C7_InPlane ==
  Returned =>
    /\ FirstOf(call) <= roi.fFirstWire
    /\ roi.fFirstWire <= roi.fLastWire
    /\ roi.fLastWire <= LastOf(call)

\* C7's case: the margin was clamped at the last channel and the parity correction
\* moved the first wire (channels 101 and 798 of plane 0: 81..799 becomes 80..799)
C7_Witness ==
  Returned /\ call.apa = 0 /\ call.plane = 0 /\ call.ret = 2
           /\ roi.fFirstWire = 80 /\ roi.fLastWire = 799

\* C8: a call of FindROI with the arguments of an earlier call gives the same fields,
\* the same result and the same exit, whatever calls were made in between, and no
\* call changes the wire store.
C8_Idempotent ==
  /\ call.op = "FindROI" => call.kept
  /\ (call.op = "FindROI" /\ marked.op = "FindROI"
        /\ call.apa = marked.apa /\ call.plane = marked.plane) =>
       /\ call.roi = marked.roi
       /\ call.ret = marked.ret
       /\ call.exit = marked.exit

\* C8's case: the call is repeated after a call for another plane or APA, and
\* found a region both times
C8_Witness ==
  /\ Returned /\ marked.op = "FindROI" /\ marked.between
  /\ call.apa = marked.apa /\ call.plane = marked.plane

\* C10: every call of FindROI ends by returning -1, 1 or 2: neither exit(1) is taken.
C10_NoFatalExit ==
  call.op = "FindROI" => (call.exit = "none" /\ call.ret \in {-1, 1, 2})

\* C10's case: the tick correction needed its last pass (a single tick at 4491 under
\* downsample 2: the end is clamped to 4489 and the start moved to 4402)
C10_Witness ==
  Returned /\ call.ret = 2 /\ roi.fFirstTick = 4402 /\ roi.fLastTick = 4489

-----------------------------------------------------------------------------
(* Claim about FindBestAPA, under SpecAPA *)

\* The summed amplitude of an APA: every stored channel of its block of 2560, every
\* tick of the channel's sequence below fMaxTick
TotalCells(map, apa) ==
  UNION {{<<c, t>> : t \in {tk \in DOMAIN map[c].sig : tk < fMaxTick /\ tk < Size(map[c])}} :
           c \in {ch \in DOMAIN map : ch \div 2560 = apa}}

RECURSIVE TotalOver(_, _)
TotalOver(map, cells) ==
  IF cells = {} THEN 0
  ELSE LET c == CHOOSE x \in cells : TRUE
       IN map[c[1]].sig[c[2]] + TotalOver(map, cells \ {c})

TotalAmplitude(map, apa) == TotalOver(map, TotalCells(map, apa))

\* C6: for every non-empty candidate list FindBestAPA returns a member of the list
\* whose summed amplitude is the maximum over the list, and the first such member in
\* list order, also when the sums are zero or negative.
C6_FirstMaximal ==
  call.op = "FindBestAPA" =>
    \E i \in 1..Len(call.list) :
       /\ call.list[i] = call.ret
       /\ \A j \in 1..Len(call.list) :
            TotalAmplitude(fWireMap, call.list[j]) <= TotalAmplitude(fWireMap, call.ret)
       /\ \A j \in 1..(i - 1) :
            TotalAmplitude(fWireMap, call.list[j]) < TotalAmplitude(fWireMap, call.ret)

\* C6's case: two different candidates tie at a negative maximal sum and the first
\* one is returned
C6_Witness ==
  /\ call.op = "FindBestAPA" /\ Len(call.list) = 2 /\ call.list[1] # call.list[2]
  /\ TotalAmplitude(fWireMap, call.list[1]) = TotalAmplitude(fWireMap, call.list[2])
  /\ TotalAmplitude(fWireMap, call.list[1]) < 0
  /\ call.ret = call.list[1]

-----------------------------------------------------------------------------
(* Claims about analyze(), under Spec *)

\* The event's processing is over: analyze() returned, or the process ended
EventOver == pc \in {"idle", "crashed", "exited"}

\* C4: when an event's processing is over, the sink holds one record for each event
\* so far whose APA set was not empty and whose three planes passed FindROI, in event
\* order, and no other; every record holds three images, of planes 0, 1, 2 (the
\* claim as stated).
C4_Original ==
  /\ EventOver =>
       /\ Len(sink) = Len(passed)
       /\ \A i \in 1..Len(sink) : sink[i].event = passed[i]
  /\ \A i \in 1..Len(sink) :
       /\ Len(sink[i].images) = 3
       /\ \A k \in 1..3 : sink[i].images[k].plane = k - 1

\* The signals ingested so far for `channel`, by position in the wire collection
Ingested(channel) == {i \in 1..(it - 1) : wires[i][1] = channel}

\* C5 as stated: a lookup returns the sample sequence of the latest ingest of the
\* channel.
C5_Original ==
  \A channel \in DOMAIN fWireMap :
     \A i \in Ingested(channel) :
        (\A j \in Ingested(channel) : j <= i) => fWireMap[channel] = wires[i][2]

\* C5 as amended: the store holds exactly the channels ingested, and a lookup returns
\* the sample sequence of the earliest ingest of the channel: a later signal for a
\* channel already stored is dropped.
C5_FirstIngestKept ==
  /\ DOMAIN fWireMap = {wires[i][1] : i \in 1..(it - 1)}
  /\ \A channel \in DOMAIN fWireMap :
       \A i \in Ingested(channel) :
          (\A j \in Ingested(channel) : i <= j) => fWireMap[channel] = wires[i][2]

\* C5's case: two different signals were ingested for one channel and the lookup
\* returns the earlier one
C5_Witness ==
  \E i, j \in 1..(it - 1) :
     /\ i < j /\ wires[i][1] = wires[j][1] /\ wires[i][2] # wires[j][2]
     /\ fWireMap[wires[i][1]] = wires[i][2]

\* C9: when the image loop is about to fill the intermediate grid of a plane, no
\* read of a stored sample sequence inside the final ROI is at a tick at or beyond
\* the sequence's length (the claim as stated).
C9_Original == pc = "build" => ~ReadsPastEnd(roi, fWireMap)

====
